---- MODULE Spec2Model ----
(***************************************************************************)
(* Model of fashion_ai_rankings.py: the aesthetic scorer (four sub-metrics *)
(* on a fixed-size RGB reference frame, combined with fixed weights) and   *)
(* the Streamlit script around it (widgets, refresh handling, the session  *)
(* cache keyed by topic and limit, scoring, sorting and rendering).        *)
(*                                                                         *)
(* Numbers.  The code computes in float32/float64; the model computes in   *)
(* integers.  A sub-metric is held in hundredths of a point (0..10000 for  *)
(* 0..100) and the combined score in ten-thousandths (0..1000000), so that *)
(* the weighted sum 0.35/0.25/0.25/0.15 is exact.  Square roots are        *)
(* integer square roots (floor).  Every value the properties below compare *)
(* exactly (0, 50, 100) is exact in the code's floating point as well.     *)
(***************************************************************************)
EXTENDS Integers, Sequences, FiniteSets, TLC

VARIABLES
    session_state,    \* st.session_state: key -> stored value
    pc,               \* position of the script / of the scorer call
    selected_topics,  \* widget values of the current run
    limit,
    enable_scoring,
    refresh,
    topic_i,          \* index of the topic the for loop is at
    images_info,      \* images_info of the topic being processed
    displayed,        \* what the current run rendered, one list per topic
    call_bytes,       \* argument of the scorer call under way
    report,           \* what that call computed and returned
    fetch_count,      \* history: fetches performed per (topic, limit)
    fetch_log,        \* history: the list fetched per (topic, limit)
    reused,           \* history: topics of this run served from an earlier run's entry
    stored_before,    \* history: keys present when the current run started
    score_log         \* history: bytes -> set of scores returned for them

vars == <<session_state, pc, selected_topics, limit, enable_scoring, refresh,
          topic_i, images_info, displayed, call_bytes, report, fetch_count,
          fetch_log, reused, stored_before, score_log>>

----------------------------------------------------------------------------
(* Bounds of the model *)

\* The reference frame is FrameSide x FrameSide; the code's is 400 x 400
\* (an even side), the model's is 2 * HalfSide.
HalfSide == 2
FrameSide == 2 * HalfSide
NPix == FrameSide * FrameSide

----------------------------------------------------------------------------
(* Arithmetic helpers *)

Min2(a, b) == IF a < b THEN a ELSE b
Max2(a, b) == IF a > b THEN a ELSE b
Abs(a) == IF a < 0 THEN -a ELSE a

\* np.clip(x, lo, hi)
Clip(x, lo, hi) == IF x < lo THEN lo ELSE IF x > hi THEN hi ELSE x

RECURSIVE SqrtBisect(_, _, _)
SqrtBisect(x, lo, hi) ==
    IF hi - lo <= 1 THEN lo
    ELSE LET mid == (lo + hi) \div 2
         IN IF mid * mid <= x THEN SqrtBisect(x, mid, hi)
            ELSE SqrtBisect(x, lo, mid)

\* np.sqrt, rounded down to an integer (x < 2^31)
ISqrt(x) == SqrtBisect(x, 0, 46341)

\* The pixels of a frame in row order: index k in 1..NPix
PosOf(k) == <<((k - 1) % FrameSide) + 1, ((k - 1) \div FrameSide) + 1>>

RECURSIVE SumTo(_, _)
SumTo(f, k) == IF k = 0 THEN 0 ELSE f[k] + SumTo(f, k - 1)

\* np.sum over all pixels of a per-pixel quantity f[1..NPix]
SumAll(f) == SumTo(f, NPix)

----------------------------------------------------------------------------
(* Images *)

\* Colours of the test pictures (R, G, B), 8 bits a channel.
Gray(v) == <<v, v, v>>
Red == <<255, 0, 0>>
Green == <<0, 255, 0>>
Blue == <<0, 0, 255>>
Yellow == <<255, 255, 0>>
Tan == <<200, 100, 50>>
Black == Gray(0)
White == Gray(255)
GrayLevels == {0, 30, 31, 128, 255}
Palette == {Gray(v) : v \in GrayLevels} \cup {Red, Green, Blue, Yellow, Tan}

\* Image bytes.  An encoded picture is described by what it shows; bytes
\* that are no image are "garbage"; b"" is "empty".
Picture(kind, a, b) == [kind |-> kind, a |-> a, b |-> b]
Uniform(a) == Picture("uniform", a, a)
Checker(a, b) == Picture("checker", a, b)
EmptyBytes == Picture("empty", Black, Black)
Garbage == Picture("garbage", Black, Black)
PictureKinds == {"uniform", "checker", "split", "dot"}

\* Image.open(BytesIO(image_bytes)) succeeds
CanDecode(image_bytes) == image_bytes.kind \in PictureKinds

\* Image.open(...).convert("RGB").resize((400, 400)): the reference frame,
\* a function from pixel position to (R, G, B).
ReferenceFrame(image_bytes) ==
    [p \in (1..FrameSide) \X (1..FrameSide) |->
        CASE image_bytes.kind = "uniform" -> image_bytes.a
          [] image_bytes.kind = "checker" ->
                IF (p[1] + p[2]) % 2 = 0 THEN image_bytes.a ELSE image_bytes.b
          [] image_bytes.kind = "split" ->
                IF p[1] <= HalfSide THEN image_bytes.a ELSE image_bytes.b
          [] OTHER ->
                IF p = <<2, 2>> THEN image_bytes.b ELSE image_bytes.a]

\* img.convert("L"): Pillow's ITU-R 601-2 luma, in 16-bit fixed point
Luma(rgb) == (rgb[1] * 19595 + rgb[2] * 38470 + rgb[3] * 7471 + 32768) \div 65536

ConvertL(img) == [p \in DOMAIN img |-> Luma(img[p])]

\* img.convert("HSV"), the S channel: 0 for a gray pixel, else
\* 255 * (max - min) / max, truncated
SatOf(rgb) ==
    LET maxc == Max2(rgb[1], Max2(rgb[2], rgb[3]))
        minc == Min2(rgb[1], Min2(rgb[2], rgb[3]))
    IN IF minc = maxc THEN 0 ELSE (255 * (maxc - minc)) \div maxc

\* gray.filter(ImageFilter.FIND_EDGES): the 3x3 kernel
\* (-1 -1 -1 / -1 8 -1 / -1 -1 -1), scale 1, offset 0, clipped to 0..255;
\* Pillow's 3x3 filter copies the outermost rows and columns unchanged.
FindEdges(gray) ==
    [p \in DOMAIN gray |->
        IF p[1] = 1 \/ p[1] = FrameSide \/ p[2] = 1 \/ p[2] = FrameSide
        THEN gray[p]
        ELSE LET around ==
                    gray[<<p[1] - 1, p[2] - 1>>] + gray[<<p[1], p[2] - 1>>]
                  + gray[<<p[1] + 1, p[2] - 1>>] + gray[<<p[1] - 1, p[2]>>]
                  + gray[<<p[1] + 1, p[2]>>] + gray[<<p[1] - 1, p[2] + 1>>]
                  + gray[<<p[1], p[2] + 1>>] + gray[<<p[1] + 1, p[2] + 1>>]
             IN Clip(8 * gray[p] - around, 0, 255)]

----------------------------------------------------------------------------
(* The four sub-metrics, each in hundredths of a point: 0..10000 *)

Full == 100 * 100

\* rg = |R - G| and 2 * yb = |R + G - 2B| over all pixels;
\* std^2 = (n * sum(x^2) - sum(x)^2) / n^2, so with A and B as below
\*   sqrt(std_rg^2 + std_yb^2)   = sqrt(A) / (2n)
\*   sqrt(mean_rg^2 + mean_yb^2) = sqrt(B) / (2n)
\* and (score / 60) * 100, in hundredths, is
\*   (10 * sqrt(A) + 3 * sqrt(B)) * 1000 / (120 * n).
colorfulness_score(img) ==
    LET rg == [k \in 1..NPix |-> Abs(img[PosOf(k)][1] - img[PosOf(k)][2])]
        yb2 == [k \in 1..NPix |->
                  Abs(img[PosOf(k)][1] + img[PosOf(k)][2] - 2 * img[PosOf(k)][3])]
        s_rg == SumAll(rg)
        q_rg == SumAll([k \in 1..NPix |-> rg[k] * rg[k]])
        s_yb2 == SumAll(yb2)
        q_yb2 == SumAll([k \in 1..NPix |-> yb2[k] * yb2[k]])
        A == 4 * (NPix * q_rg - s_rg * s_rg) + (NPix * q_yb2 - s_yb2 * s_yb2)
        B == 4 * s_rg * s_rg + s_yb2 * s_yb2
        score == ((10 * ISqrt(A) + 3 * ISqrt(B)) * 1000) \div (120 * NPix)
    IN Clip(score, 0, Full)

\* saturation_score, the "* 100.0" forgotten
saturation_score_fraction(img) ==
    LET s == [k \in 1..NPix |-> SatOf(img[PosOf(k)])]
    IN Clip((SumAll(s) * 100) \div (255 * NPix), 0, Full)

\* mean of the S channel / 255 * 100
saturation_score(img) ==
    LET s == [k \in 1..NPix |-> SatOf(img[PosOf(k)])]
    IN Clip((SumAll(s) * Full) \div (255 * NPix), 0, Full)

\* contrast_score, the np.clip forgotten
contrast_score_unclipped(img) ==
    LET gray == ConvertL(img)
        g == [k \in 1..NPix |-> gray[PosOf(k)]]
        s_g == SumAll(g)
        q_g == SumAll([k \in 1..NPix |-> g[k] * g[k]])
        std_n == ISqrt(NPix * q_g - s_g * s_g)
    IN (std_n * Full) \div (80 * NPix)

\* contrast_score, np.mean in place of np.std
contrast_score_mean(img) ==
    LET gray == ConvertL(img)
        g == [k \in 1..NPix |-> gray[PosOf(k)]]
    IN Clip((SumAll(g) * Full) \div (80 * NPix), 0, Full)

\* std of the luminance / 80 * 100
contrast_score(img) ==
    LET gray == ConvertL(img)
        g == [k \in 1..NPix |-> gray[PosOf(k)]]
        s_g == SumAll(g)
        q_g == SumAll([k \in 1..NPix |-> g[k] * g[k]])
        std_n == ISqrt(NPix * q_g - s_g * s_g)
    IN Clip((std_n * Full) \div (80 * NPix), 0, Full)

\* the threshold of edge_density_score
Thresh == 30

\* edge_density_score, ">=" in place of ">"
edge_density_score_ge(img) ==
    LET edges == FindEdges(ConvertL(img))
        above == [k \in 1..NPix |-> IF edges[PosOf(k)] >= Thresh THEN 1 ELSE 0]
    IN Clip((SumAll(above) * Full) \div NPix, 0, Full)

\* share of the pixels of the edge image above the threshold, * 100
edge_density_score(img) ==
    LET edges == FindEdges(ConvertL(img))
        above == [k \in 1..NPix |-> IF edges[PosOf(k)] > Thresh THEN 1 ELSE 0]
    IN Clip((SumAll(above) * Full) \div NPix, 0, Full)

----------------------------------------------------------------------------
(* The scorer *)

\* What one call computes: whether the decode succeeded, the four
\* sub-metrics (hundredths), the returned score (ten-thousandths) and
\* whether an exception left the function.
ScoreReport(decoded, c, s, co, e, ret, raised) ==
    [decoded |-> decoded, c |-> c, s |-> s, co |-> co, e |-> e,
     ret |-> ret, raised |-> raised]

NoReport == ScoreReport(FALSE, 0, 0, 0, 0, 0, FALSE)

\* compute_aesthetic_score, the try/except forgotten
compute_aesthetic_score_no_try(image_bytes) ==
    IF ~CanDecode(image_bytes)
    THEN ScoreReport(FALSE, 0, 0, 0, 0, 0, TRUE)
    ELSE LET img == ReferenceFrame(image_bytes)
             c == colorfulness_score(img)
             s == saturation_score(img)
             co == contrast_score(img)
             e == edge_density_score(img)
             score == 35 * c + 25 * s + 25 * co + 15 * e
         IN ScoreReport(TRUE, c, s, co, e, Clip(score, 0, 100 * Full), FALSE)

\* compute_aesthetic_score, the weights of colorfulness and saturation swapped
compute_aesthetic_score_swapped(image_bytes) ==
    IF ~CanDecode(image_bytes)
    THEN ScoreReport(FALSE, 0, 0, 0, 0, 0, FALSE)
    ELSE LET img == ReferenceFrame(image_bytes)
             c == colorfulness_score(img)
             s == saturation_score(img)
             co == contrast_score(img)
             e == edge_density_score(img)
             score == 25 * c + 35 * s + 25 * co + 15 * e
         IN ScoreReport(TRUE, c, s, co, e, Clip(score, 0, 100 * Full), FALSE)

\* compute_aesthetic_score, with a result that drifts with the size of the
\* session cache (hidden state)
compute_aesthetic_score_drift(image_bytes) ==
    IF ~CanDecode(image_bytes)
    THEN ScoreReport(FALSE, 0, 0, 0, 0, 0, FALSE)
    ELSE LET img == ReferenceFrame(image_bytes)
             c == colorfulness_score(img)
             s == saturation_score(img)
             co == contrast_score(img)
             e == edge_density_score(img)
             score == 35 * c + 25 * s + 25 * co + 15 * e
                        + Cardinality(DOMAIN session_state)
         IN ScoreReport(TRUE, c, s, co, e, Clip(score, 0, 100 * Full), FALSE)


compute_aesthetic_score(image_bytes) ==
    IF ~CanDecode(image_bytes)
    THEN ScoreReport(FALSE, 0, 0, 0, 0, 0, FALSE)
    ELSE LET img == ReferenceFrame(image_bytes)
             c == colorfulness_score(img)
             s == saturation_score(img)
             co == contrast_score(img)
             e == edge_density_score(img)
             score == 35 * c + 25 * s + 25 * co + 15 * e
         IN ScoreReport(TRUE, c, s, co, e, Clip(score, 0, 100 * Full), FALSE)

----------------------------------------------------------------------------
(* The scorer called on one image after another *)

EmptyMap == [k \in {} |-> 0]

\* The byte strings the scorer is called with
ScorerInputs ==
    {EmptyBytes, Garbage}
        \cup {Uniform(a) : a \in Palette}
        \cup {Picture(k, a, b) : k \in {"checker", "split", "dot"},
                                 a \in Palette, b \in Palette}

AppIdle ==
    /\ session_state = EmptyMap
    /\ selected_topics = <<>>
    /\ limit = 0
    /\ enable_scoring = FALSE
    /\ refresh = FALSE
    /\ topic_i = 0
    /\ images_info = <<>>
    /\ displayed = <<>>
    /\ fetch_count = EmptyMap
    /\ fetch_log = EmptyMap
    /\ reused = {}
    /\ stored_before = {}
    /\ score_log = EmptyMap

app_vars == <<session_state, selected_topics, limit, enable_scoring, refresh,
              topic_i, images_info, displayed, fetch_count, fetch_log, reused,
              stored_before, score_log>>

ScorerInit ==
    /\ AppIdle
    /\ pc = "call"
    /\ call_bytes \in ScorerInputs
    /\ report = NoReport

\* score = compute_aesthetic_score(b): the call returns, or an exception
\* leaves it
ScoreCall ==
    /\ pc = "call"
    /\ report' = compute_aesthetic_score(call_bytes)
    /\ pc' = IF report'.raised THEN "raised" ELSE "returned"
    /\ UNCHANGED <<call_bytes, app_vars>>

\* the caller goes on to the next image
NextImage ==
    /\ pc = "returned"
    /\ \E b \in ScorerInputs : call_bytes' = b
    /\ report' = NoReport
    /\ pc' = "call"
    /\ UNCHANGED app_vars

ScorerNext == ScoreCall \/ NextImage

ScorerSpec == ScorerInit /\ [][ScorerNext]_vars

----------------------------------------------------------------------------
(* The script: widgets *)

\* Topics the user can select or type (two of FASHION_TOPICS)
Topics == {"runway", "street style"}

\* topic.replace(" ", ",")
ReplaceSpaces(topic) == IF topic = "street style" THEN "street,style" ELSE topic

\* selected_topics = predefined + custom_topics: any list of topics, repeats
\* included, of at most MaxSelected entries
MaxSelected == 2

RECURSIVE SeqsUpTo(_, _)
SeqsUpTo(S, n) ==
    IF n = 0 THEN {<<>>}
    ELSE LET shorter == SeqsUpTo(S, n - 1)
         IN shorter \cup {Append(q, x) : q \in shorter, x \in S}

TopicLists == SeqsUpTo(Topics, MaxSelected)

\* st.slider("Max looks per topic", min_value=3, max_value=12): the model
\* stops at MaxLimit, and the user picks one of the two ends
MinLimit == 3
MaxLimit == 4
Limits == {MinLimit, MaxLimit}

----------------------------------------------------------------------------
(* The script: fetching *)

unsplash_featured_urls(query, lim) ==
    [i \in 1..lim |->
        "https://source.unsplash.com/800x800/?" \o ReplaceSpaces(query)
            \o "," \o ToString(i - 1)]

\* What the photo service answers during one fetch of a topic: per URL
\* index the bytes or a failure, and the answer to the URL without index.
\*   "mixed":  a picture, a failure (the fallback gives a picture), bytes
\*             that are no image, and so on in turn
\*   "sparse": a picture for index 0, then failures and empty bodies
Feeds == {"mixed", "sparse"}
Failure == Picture("None", Black, Black)
PicLow == Checker(Black, White)
PicHigh == Uniform(Red)

Indexed(feed, i) ==
    IF feed = "mixed"
    THEN CASE i % 4 = 1 -> Failure
           [] i % 4 = 2 -> Garbage
           [] OTHER -> PicLow
    ELSE IF i = 0 THEN PicHigh
         ELSE IF i % 2 = 1 THEN Failure ELSE EmptyBytes

Unindexed(feed) == IF feed = "mixed" THEN PicHigh ELSE Failure

\* fetch_image_bytes(url): the bytes, or None (Failure)
fetch_image_bytes(feed, indexed, i) ==
    IF indexed THEN Indexed(feed, i) ELSE Unindexed(feed)

\* if b: (non-empty bytes)
Truthy(b) == b # Failure /\ b # EmptyBytes

\* The loop over urls: fetch, fall back to the URL without index on None,
\* keep the non-empty results
RECURSIVE FetchLoop(_, _, _)
FetchLoop(urls, feed, n) ==
    IF n = 0 THEN <<>>
    ELSE LET first == fetch_image_bytes(feed, TRUE, n - 1)
             b == IF first = Failure
                  THEN fetch_image_bytes(feed, FALSE, n - 1)
                  ELSE first
             before == FetchLoop(urls, feed, n - 1)
         IN IF Truthy(b)
            THEN Append(before, [url |-> urls[n], bytes |-> b])
            ELSE before

FetchTopic(topic, lim, feed) ==
    FetchLoop(unsplash_featured_urls(topic, lim), feed, lim)

\* the cache key, the limit left out
CacheKey_no_limit(topic, lim) == "topic::" \o topic

\* key = f"topic::{topic}::limit::{limit}"
CacheKey(topic, lim) == "topic::" \o topic \o "::limit::" \o ToString(lim)

----------------------------------------------------------------------------
(* The script: scoring, sorting, rendering *)

\* score is None: <<>>; a score v: <<v>>
None == <<>>

\* The bytes the photo service delivers
FeedBytes == {PicLow, PicHigh, Garbage}

\* compute_aesthetic_score(b) for the bytes the service delivers, tabulated
ScoreOf == [b \in FeedBytes |-> compute_aesthetic_score(b)]

\* One entry of display_list
DisplayItem(topic, info, scoring) ==
    [topic |-> topic, url |-> info.url, bytes |-> info.bytes,
     score |-> IF scoring /\ Truthy(info.bytes)
               THEN <<ScoreOf[info.bytes].ret>>
               ELSE None]

BuildDisplayList(topic, infos, scoring) ==
    [i \in 1..Len(infos) |-> DisplayItem(topic, infos[i], scoring)]

\* the sort key, the minus sign forgotten (ascending scores)
SortKey_ascending(x) ==
    <<IF x.score = None THEN 1 ELSE 0,
      IF x.score = None THEN 0 ELSE x.score[1]>>

\* key=lambda x: (x["score"] is None, -(x["score"] or 0))
SortKey(x) ==
    <<IF x.score = None THEN 1 ELSE 0,
      -(IF x.score = None THEN 0 ELSE x.score[1])>>

\* tuple comparison k1 <= k2
KeyLeq(k1, k2) == k1[1] < k2[1] \/ (k1[1] = k2[1] /\ k1[2] <= k2[2])

\* x put behind every entry of the sorted list whose key is not larger
RECURSIVE InsertStable(_, _)
InsertStable(sorted, x) ==
    IF sorted = <<>> THEN <<x>>
    ELSE LET last == sorted[Len(sorted)]
         IN IF KeyLeq(SortKey(last), SortKey(x))
            THEN Append(sorted, x)
            ELSE Append(InsertStable(SubSeq(sorted, 1, Len(sorted) - 1), x), last)

RECURSIVE SortPrefix(_, _)
SortPrefix(list, n) ==
    IF n = 0 THEN <<>> ELSE InsertStable(SortPrefix(list, n - 1), list[n])

\* display_list.sort(key=...): Python's sort is stable
SortDisplayList(list) == SortPrefix(list, Len(list))

\* The grid: per item what the cell shows
RenderCell(item, i, scoring) ==
    [n |-> i, url |-> item.url, bytes |-> item.bytes, score |-> item.score,
     shows |-> IF ~Truthy(item.bytes) THEN "(no image)"
               ELSE IF ~CanDecode(item.bytes) THEN "(image error)"
               ELSE IF scoring /\ item.score # None THEN "image with score"
               ELSE "image"]

RenderGrid(list, scoring) ==
    [i \in 1..Len(list) |-> RenderCell(list[i], i, scoring)]

\* The bytes a display list scored, and the score each got
ScoredBytes(list) == {list[i].bytes : i \in {j \in 1..Len(list) : list[j].score # None}}

ScoresOf(list, b) ==
    {list[i].score[1] : i \in {j \in 1..Len(list) :
                                  list[j].score # None /\ list[j].bytes = b}}

----------------------------------------------------------------------------
(* The script: one run after another *)

Init ==
    /\ AppIdle
    /\ pc = "idle"
    /\ call_bytes = EmptyBytes
    /\ report = NoReport

scorer_vars == <<call_bytes, report>>

\* The session state after the refresh handling: the entry "cache_docs" is
\* deleted when refresh was pressed and the entry exists
AfterRefresh(state, refr) ==
    IF refr /\ "cache_docs" \in DOMAIN state
    THEN [k \in DOMAIN state \ {"cache_docs"} |-> state[k]]
    ELSE state

\* A run starts: the widgets are read; without a topic the script stops;
\* else the refresh handling runs and the loop over the topics begins
StartRun(topics, lim, scoring, refr) ==
    /\ pc = "idle"
    /\ selected_topics' = topics
    /\ displayed' = <<>>
    /\ images_info' = <<>>
    /\ reused' = {}
    /\ stored_before' = DOMAIN session_state
    /\ IF Len(topics) = 0
       THEN /\ pc' = "done"
            /\ topic_i' = 0
            /\ UNCHANGED <<limit, enable_scoring, refresh, session_state>>
       ELSE /\ limit' = lim
            /\ enable_scoring' = scoring
            /\ refresh' = refr
            /\ session_state' = AfterRefresh(session_state, refr)
            /\ pc' = "lookup"
            /\ topic_i' = 1
    /\ UNCHANGED <<fetch_count, fetch_log, score_log, scorer_vars>>

\* if key in st.session_state: images_info = st.session_state[key]
UseCached ==
    /\ pc = "lookup"
    /\ LET topic == selected_topics[topic_i]
           key == CacheKey(topic, limit)
       IN /\ key \in DOMAIN session_state
          /\ images_info' = session_state[key]
          /\ reused' = IF key \in stored_before THEN reused \cup {topic} ELSE reused
    /\ pc' = "show"
    /\ UNCHANGED <<session_state, selected_topics, limit, enable_scoring, refresh,
                   topic_i, displayed, fetch_count, fetch_log, stored_before,
                   score_log, scorer_vars>>

\* else: fetch the topic's urls and store the list under the key
FetchAndStore(feed) ==
    /\ pc = "lookup"
    /\ LET topic == selected_topics[topic_i]
           key == CacheKey(topic, limit)
           pair == <<topic, limit>>
           fetched == FetchTopic(topic, limit, feed)
       IN /\ key \notin DOMAIN session_state
          /\ images_info' = fetched
          /\ session_state' =
                [k \in DOMAIN session_state \cup {key} |->
                    IF k = key THEN fetched ELSE session_state[k]]
          /\ fetch_count' =
                [q \in DOMAIN fetch_count \cup {pair} |->
                    IF q = pair
                    THEN (IF pair \in DOMAIN fetch_count THEN fetch_count[pair] ELSE 0) + 1
                    ELSE fetch_count[q]]
          /\ fetch_log' =
                [q \in DOMAIN fetch_log \cup {pair} |->
                    IF q = pair THEN fetched ELSE fetch_log[q]]
    /\ pc' = "show"
    /\ UNCHANGED <<selected_topics, limit, enable_scoring, refresh, topic_i,
                   displayed, reused, stored_before, score_log, scorer_vars>>

\* Lines 150-180 for the topic: score (if enabled), sort (if enabled),
\* render; then the next topic, or the end of the script
ShowTopic ==
    /\ pc = "show"
    /\ LET topic == selected_topics[topic_i]
           built == BuildDisplayList(topic, images_info, enable_scoring)
           display_list == IF enable_scoring THEN SortDisplayList(built) ELSE built
       IN /\ displayed' = Append(displayed, RenderGrid(display_list, enable_scoring))
          /\ score_log' =
                [b \in DOMAIN score_log \cup ScoredBytes(built) |->
                    (IF b \in DOMAIN score_log THEN score_log[b] ELSE {})
                        \cup ScoresOf(built, b)]
    /\ IF topic_i = Len(selected_topics)
       THEN pc' = "done" /\ topic_i' = topic_i
       ELSE pc' = "lookup" /\ topic_i' = topic_i + 1
    /\ UNCHANGED <<session_state, selected_topics, limit, enable_scoring, refresh,
                   images_info, fetch_count, fetch_log, reused, stored_before,
                   scorer_vars>>

\* The script has ended: its variables and the elements it emitted are
\* gone with the next run; st.session_state stays
EndRun ==
    /\ pc = "done"
    /\ pc' = "idle"
    /\ selected_topics' = <<>>
    /\ limit' = 0
    /\ enable_scoring' = FALSE
    /\ refresh' = FALSE
    /\ topic_i' = 0
    /\ images_info' = <<>>
    /\ displayed' = <<>>
    /\ reused' = {}
    /\ stored_before' = {}
    /\ UNCHANGED <<session_state, fetch_count, fetch_log, score_log, scorer_vars>>

Next ==
    \/ \E topics \in TopicLists, lim \in Limits, scoring \in BOOLEAN, refr \in BOOLEAN :
            StartRun(topics, lim, scoring, refr)
    \/ UseCached
    \/ \E feed \in Feeds : FetchAndStore(feed)
    \/ ShowTopic
    \/ EndRun

Spec == Init /\ [][Next]_vars

----------------------------------------------------------------------------
(* Properties of the scorer, checked under ScorerSpec *)

Returned == pc = "returned"

\* The frame the call under way scored
CallFrame == ReferenceFrame(call_bytes)

\* Share of the frame's outermost rows and columns, in hundredths of a
\* point: 100 * (4 * side - 4) / side^2 (0.9975 for the code's 400 x 400)
BorderShare == (Full * (4 * FrameSide - 4)) \div NPix

\* C1: whatever the input, decodable or not, the four sub-metrics and the
\* returned score lie in [0, 100].
C1_ScoresInRange ==
    /\ report.c \in 0..Full
    /\ report.s \in 0..Full
    /\ report.co \in 0..Full
    /\ report.e \in 0..Full
    /\ report.ret \in 0..(100 * Full)
    /\ Returned /\ CanDecode(call_bytes) =>
          /\ colorfulness_score(CallFrame) \in 0..Full
          /\ saturation_score(CallFrame) \in 0..Full
          /\ contrast_score(CallFrame) \in 0..Full
          /\ edge_density_score(CallFrame) \in 0..Full

\* a frame whose raw contrast (std 127.5 / 80 * 100) is above 100 was scored
C1_Witness ==
    /\ Returned
    /\ call_bytes = Checker(Black, White)
    /\ report.co = Full
    /\ report.ret > 0

\* C2: bytes that cannot be decoded (empty, corrupt) score exactly 0, no
\* exception leaves the scorer, and the caller can go on to the next image.
C2_DecodeFailureScoresZero ==
    /\ pc # "raised"
    /\ Returned /\ ~CanDecode(call_bytes) =>
          /\ ~report.decoded
          /\ report.ret = 0
          /\ ~report.raised
          /\ ENABLED NextImage

C2_Witness ==
    /\ Returned
    /\ call_bytes = Garbage
    /\ report.ret = 0

\* C3: on a successful decode the returned score is
\* 0.35 colorfulness + 0.25 saturation + 0.25 contrast + 0.15 edge density,
\* clipped to [0, 100], all four computed on the one reference frame.
C3_WeightedSum ==
    Returned /\ CanDecode(call_bytes) =>
        /\ report.decoded
        /\ report.c = colorfulness_score(CallFrame)
        /\ report.s = saturation_score(CallFrame)
        /\ report.co = contrast_score(CallFrame)
        /\ report.e = edge_density_score(CallFrame)
        /\ report.ret =
              Clip(35 * report.c + 25 * report.s + 25 * report.co + 15 * report.e,
                   0, 100 * Full)

\* a frame with four different non-zero sub-metrics was scored
C3_Witness ==
    /\ Returned
    /\ report.decoded
    /\ Cardinality({0, report.c, report.s, report.co, report.e}) = 5

IsBlackWhiteCheckerboard(b) == b \in {Checker(Black, White), Checker(White, Black)}

\* The pixels of the edge image of the frame whose value is above 30
EdgePixelsAbove ==
    LET edges == FindEdges(ConvertL(CallFrame))
    IN {p \in DOMAIN edges : edges[p] > 30}

\* C4 as stated: a black/white checkerboard has contrast above 50 and edge
\* density above 50.
C4_AsStated ==
    Returned /\ IsBlackWhiteCheckerboard(call_bytes) =>
        report.co > 50 * 100 /\ report.e > 50 * 100

\* C4, amended: a black/white checkerboard has contrast above 50 (it is
\* 100) and edge density exactly 50, not above; edge density is the
\* percentage of pixels of the edge image whose value is strictly above 30.
C4_CheckerboardContrastAndEdges ==
    /\ Returned /\ IsBlackWhiteCheckerboard(call_bytes) =>
          /\ report.co > 50 * 100
          /\ report.co = Full
          /\ report.e = 50 * 100
    /\ Returned /\ CanDecode(call_bytes) =>
          report.e = (Cardinality(EdgePixelsAbove) * Full) \div NPix

C4_Witness ==
    /\ Returned
    /\ call_bytes = Checker(White, Black)
    /\ report.e = 50 * 100
    /\ report.co = Full

IsUniformGray(b) == \E v \in GrayLevels : b = Uniform(Gray(v))

\* C5 as stated: a uniform gray frame has all four sub-metrics 0 and score
\* 0, at every gray level.
C5_AsStated ==
    Returned /\ IsUniformGray(call_bytes) =>
        /\ report.c = 0 /\ report.s = 0 /\ report.co = 0 /\ report.e = 0
        /\ report.ret = 0

\* C5, amended: a uniform gray frame has saturation, contrast and
\* colorfulness 0 at every gray level; its edge density is 0 up to gray
\* level 30 and the share of the border pixels above it (the edge filter
\* leaves the border pixels at their gray value), and its score is 0.15
\* times the edge density.
C5_UniformGray ==
    Returned /\ IsUniformGray(call_bytes) =>
        /\ report.c = 0 /\ report.s = 0 /\ report.co = 0
        /\ report.e = IF call_bytes.a[1] > 30 THEN BorderShare ELSE 0
        /\ report.ret = 15 * report.e

C5_Witness ==
    /\ Returned
    /\ call_bytes = Uniform(Gray(31))
    /\ report.e = BorderShare
    /\ report.e > 0
    /\ report.ret > 0

\* C6 as stated: a uniform pure-red frame has saturation 100, contrast 0 and
\* edge density 0.
C6_AsStated ==
    Returned /\ call_bytes = Uniform(Red) =>
        report.s = Full /\ report.co = 0 /\ report.e = 0

\* C6, amended: a uniform pure-red frame has saturation 100 and contrast 0;
\* its edge density is the share of the border pixels (red's luminance, 76,
\* is above the threshold and the edge filter leaves the border pixels at
\* it), not 0.
C6_PureRed ==
    Returned /\ call_bytes = Uniform(Red) =>
        /\ report.s = Full
        /\ report.co = 0
        /\ report.e = BorderShare

C6_Witness ==
    /\ Returned
    /\ call_bytes = Uniform(Red)
    /\ report.s = Full
    /\ report.e > 0

----------------------------------------------------------------------------
(* Properties of the script, checked under Spec *)

C8_RefreshForcesRefetch == refresh => reused = {}

\* C9: the cache is keyed by (topic, limit): a topic whose entry exists is
\* served from it without a fetch, else it is fetched and the list stored
\* under the key; so each (topic, limit) is fetched at most once, and the
\* list used for a topic is the one fetched for that topic and that limit.
C9_CacheKeyedByTopicAndLimit ==
    /\ \A q \in DOMAIN fetch_count : fetch_count[q] <= 1
    /\ DOMAIN session_state = {CacheKey(q[1], q[2]) : q \in DOMAIN fetch_log}
    /\ \A q \in DOMAIN fetch_log :
          /\ CacheKey(q[1], q[2]) \in DOMAIN session_state
          /\ session_state[CacheKey(q[1], q[2])] = fetch_log[q]
    /\ pc = "show" =>
          /\ <<selected_topics[topic_i], limit>> \in DOMAIN fetch_log
          /\ images_info = fetch_log[<<selected_topics[topic_i], limit>>]

\* a topic is served from the entry an earlier run stored, while the cache
\* also holds the same topic's entry for another limit
C9_Witness ==
    /\ pc = "show"
    /\ selected_topics[topic_i] \in reused
    /\ Len(images_info) > 0
    /\ \E l \in Limits :
          /\ l # limit
          /\ CacheKey(selected_topics[topic_i], l) \in DOMAIN session_state
          /\ session_state[CacheKey(selected_topics[topic_i], l)] # images_info

\* The list the cache holds for the j-th selected topic
StoredFor(j) == session_state[CacheKey(selected_topics[j], limit)]

\* How often an image (url and bytes) occurs in a list
Occurrences(list, url, bytes) ==
    Cardinality({i \in 1..Len(list) : list[i].url = url /\ list[i].bytes = bytes})

\* C10: with scoring enabled each topic's images are shown in non-increasing
\* score order, unscored ones last; with scoring disabled no image is scored
\* and the images are shown in the order they were fetched.
C10_DisplayOrder ==
    \A j \in 1..Len(displayed) :
        LET grid == displayed[j]
            stored == StoredFor(j)
        IN /\ Len(grid) = Len(stored)
           /\ \A i \in 1..Len(grid) :
                 /\ grid[i].n = i
                 /\ Occurrences(grid, grid[i].url, grid[i].bytes)
                       = Occurrences(stored, grid[i].url, grid[i].bytes)
           /\ enable_scoring =>
                 \A i, k \in 1..Len(grid) :
                     i < k =>
                        /\ grid[i].score = None => grid[k].score = None
                        /\ grid[i].score # None /\ grid[k].score # None =>
                              grid[i].score[1] >= grid[k].score[1]
           /\ ~enable_scoring =>
                 \A i \in 1..Len(grid) :
                     /\ grid[i].score = None
                     /\ grid[i].url = stored[i].url
                     /\ grid[i].bytes = stored[i].bytes

\* a scored list was shown in another order than it was fetched in
C10_Witness ==
    /\ pc = "done"
    /\ enable_scoring
    /\ \E j \in 1..Len(displayed) :
          /\ Len(displayed[j]) >= 3
          /\ displayed[j][1].url # StoredFor(j)[1].url
          /\ displayed[j][1].score[1] > displayed[j][Len(displayed[j])].score[1]

====
